---- MODULE Spec2Model ----
(***************************************************************************)
(* Model of finance/config/config.py: the recursive dictionary merger, the *)
(* three non-overridable validators, the config generator and the          *)
(* process-wide config singleton with its accessors.                       *)
(*                                                                         *)
(* Python dictionaries are mutable objects reached through references, so  *)
(* the model keeps an object store (heap).  A dictionary object is the     *)
(* sequence of its items in insertion order; a value is either a scalar    *)
(* (kind "val", the scalar spelled in s) or a reference to a dictionary    *)
(* object (kind "dict", the object's index in the heap in id).             *)
(***************************************************************************)
EXTENDS Integers, Sequences, FiniteSets, TLC

VARIABLES heap, __config, files, call, ret, hist

vars == <<heap, __config, files, call, ret, hist>>

----------------------------------------------------------------------------
(* Values, objects and literals *)

Val(s) == [kind |-> "val", id |-> 0, s |-> s]

Ref(i) == [kind |-> "dict", id |-> i, s |-> ""]

None == Val("None")

isdict(v) == v.kind = "dict"

Item(k, v) == [k |-> k, v |-> v]

\* A literal is a dictionary display or a parsed JSON document before it is
\* built in memory: a tree of items.
Lit(s) == [kind |-> "val", s |-> s, items |-> <<>>]

Dict(items) == [kind |-> "dict", s |-> "", items |-> items]

KeysOf(obj) == {obj[i].k : i \in 1..Len(obj)}

HasKey(h, d, k) == k \in KeysOf(h[d.id])

GetItem(h, d, k) ==
  LET obj == h[d.id]
      i == CHOOSE j \in 1..Len(obj) : obj[j].k = k
  IN obj[i].v

\* d[k] = v : an existing key keeps its position, a new key goes last.
SetItem(h, d, k, v) ==
  LET obj == h[d.id]
  IN IF k \in KeysOf(obj)
       THEN [h EXCEPT ![d.id] =
               [i \in 1..Len(obj) |-> IF obj[i].k = k THEN Item(k, v) ELSE obj[i]]]
       ELSE [h EXCEPT ![d.id] = Append(obj, Item(k, v))]

\* Builds a literal in the heap; the result is the new heap and the value.
RECURSIVE Build(_, _)
RECURSIVE BuildItems(_, _, _, _)
BuildItems(h, items, i, acc) ==
  IF i > Len(items) THEN [h |-> h, items |-> acc]
  ELSE LET b == Build(h, items[i].v)
       IN BuildItems(b.h, items, i + 1, Append(acc, Item(items[i].k, b.v)))

Build(h, lit) ==
  IF lit.kind = "val" THEN [h |-> h, v |-> Val(lit.s)]
  ELSE LET b == BuildItems(h, lit.items, 1, <<>>)
       IN [h |-> Append(b.h, b.items), v |-> Ref(Len(b.h) + 1)]

Scalar(s) == [kind |-> "val", s |-> s, m |-> <<>>]

\* The value of an object by Python's ==: dictionaries compare by their
\* key/value mapping, whatever the insertion order.
RECURSIVE DeepValue(_, _)
DeepValue(h, v) ==
  IF v.kind = "val" THEN Scalar(v.s)
  ELSE [kind |-> "dict", s |-> "",
        m |-> [k \in KeysOf(h[v.id]) |-> DeepValue(h, GetItem(h, v, k))]]

RECURSIVE LitValue(_)
LitValue(lit) ==
  IF lit.kind = "val" THEN Scalar(lit.s)
  ELSE [kind |-> "dict", s |-> "",
        m |-> [k \in {lit.items[i].k : i \in 1..Len(lit.items)} |->
                 LitValue(lit.items[CHOOSE i \in 1..Len(lit.items) : lit.items[i].k = k].v)]]

----------------------------------------------------------------------------
(* Exceptions and call outcomes *)

Err(kind, msg) == [kind |-> kind, msg |-> msg, cause |-> <<>>]

\* raise type(e)(msg) from e
RaiseFrom(e, msg) == [kind |-> e.kind, msg |-> msg, cause |-> <<e>>]

\* The outcome of a call: the heap it leaves, whether it returned, the value
\* returned, and the exceptions it may have raised (more than one only where
\* the code iterates over a set, whose order is unspecified).  n counts
\* the overrides merge_overridable_dictionaries had merged when it ended.
Returns(h, v) == [h |-> h, ok |-> TRUE, v |-> v, errs |-> {}, n |-> 0]

Raises(h, errs) == [h |-> h, ok |-> FALSE, v |-> None, errs |-> errs, n |-> 0]

\* A statement "x = e" followed by the statements F that use x: e is
\* evaluated once, and F sees its value.
Bind(e, F(_)) == CHOOSE y \in {F(x) : x \in {e}} : TRUE

----------------------------------------------------------------------------
(* copy.deepcopy *)

\* deepcopy replaced by a plain assignment: the "copy" is the object itself.
DeepCopyAlias(h, v) == [h |-> h, v |-> v]

RECURSIVE DeepCopy(_, _)
RECURSIVE DeepCopyItems(_, _, _, _)
DeepCopyItems(h, obj, i, acc) ==
  IF i > Len(obj) THEN [h |-> h, items |-> acc]
  ELSE LET c == DeepCopy(h, obj[i].v)
       IN DeepCopyItems(c.h, obj, i + 1, Append(acc, Item(obj[i].k, c.v)))

DeepCopy(h, v) ==
  IF v.kind = "val" THEN [h |-> h, v |-> v]
  ELSE LET c == DeepCopyItems(h, h[v.id], 1, <<>>)
       IN [h |-> Append(c.h, c.items), v |-> Ref(Len(c.h) + 1)]

----------------------------------------------------------------------------
(* merge_dictionaries *)

OverridingErrorMsg(key) ==
  "Cannot override keys when raise_overriding is True. Trying to override " \o key

NewKeyErrorMsg(key) ==
  "Cannot add new key when raise_new_keys is True. New key is " \o key

\* merge_keys as dict.update would do it: no recursion into nested dictionaries.
RECURSIVE merge_keys_shallow(_, _, _, _, _, _, _)
merge_keys_shallow(h, merged_dictionary, base_dictionary, dictionary, i, raise_overriding, raise_new_keys) ==
  LET obj == h[dictionary.id]
  IN IF i > Len(obj) THEN Returns(h, merged_dictionary)
     ELSE IF HasKey(h, base_dictionary, obj[i].k) /\ raise_overriding
       THEN Raises(h, {Err("OverridingError", OverridingErrorMsg(obj[i].k))})
     ELSE IF ~HasKey(h, base_dictionary, obj[i].k) /\ raise_new_keys
       THEN Raises(h, {Err("NewKeyError", NewKeyErrorMsg(obj[i].k))})
     ELSE merge_keys_shallow(SetItem(h, merged_dictionary, obj[i].k, obj[i].v),
                             merged_dictionary, base_dictionary, dictionary, i + 1,
                             raise_overriding, raise_new_keys)

RECURSIVE merge_dictionaries(_, _, _, _, _)
RECURSIVE merge_keys(_, _, _, _, _, _, _)
\* The loop "for key in dictionary.keys()" from its i-th key on.
merge_keys(h, merged_dictionary, base_dictionary, dictionary, i, raise_overriding, raise_new_keys) ==
  LET obj == h[dictionary.id]
  IN IF i > Len(obj) THEN Returns(h, merged_dictionary)
     ELSE
       LET key == obj[i].k
           inBase == HasKey(h, base_dictionary, key)
       IN IF inBase /\ isdict(GetItem(h, base_dictionary, key)) /\ isdict(obj[i].v)
            THEN LET r == merge_dictionaries(h, GetItem(h, base_dictionary, key), obj[i].v,
                                             raise_overriding, raise_new_keys)
                 IN IF ~r.ok THEN r
                    ELSE merge_keys(SetItem(r.h, merged_dictionary, key, r.v),
                                    merged_dictionary, base_dictionary, dictionary, i + 1,
                                    raise_overriding, raise_new_keys)
          ELSE IF inBase /\ raise_overriding
            THEN Raises(h, {Err("OverridingError", OverridingErrorMsg(key))})
          ELSE IF ~inBase /\ raise_new_keys
            THEN Raises(h, {Err("NewKeyError", NewKeyErrorMsg(key))})
          ELSE merge_keys(SetItem(h, merged_dictionary, key, obj[i].v),
                          merged_dictionary, base_dictionary, dictionary, i + 1,
                          raise_overriding, raise_new_keys)

merge_dictionaries(h, base_dictionary, dictionary, raise_overriding, raise_new_keys) ==
  LET c == DeepCopy(h, base_dictionary)
  IN merge_keys(c.h, c.v, base_dictionary, dictionary, 1, raise_overriding, raise_new_keys)

----------------------------------------------------------------------------
(* The three validators.  None of them writes; each yields the set of      *)
(* exceptions it may raise, empty when it returns None.                     *)

IsNonOverridableError(msg) == Err("IsNonOverridableError", msg)

\* Keys that are not str objects (the int 7 is spelled "#7").
NonStrKeys == {"#7"}

\* value == True : also true of the int 1 (and of nothing else modelled).
PyEqTrue(v) == v.kind = "val" /\ v.s \in {"True", "1"}

RECURSIVE is_non_overridable_validation(_, _)
RECURSIVE is_non_overridable_items(_, _, _)
\* The loop "for key, value in is_non_overridable.items()" from item i on.
is_non_overridable_items(h, is_non_overridable, i) ==
  LET obj == h[is_non_overridable.id]
  IN IF i > Len(obj) THEN {}
     ELSE IF obj[i].k \in NonStrKeys
       THEN {IsNonOverridableError("All keys of the is_non_overridable dictionary must be strings. Found: "
                                   \o "7" \o " of type: <class 'int'> ")}
     ELSE IF isdict(obj[i].v)
       THEN is_non_overridable_validation(h, obj[i].v)
     ELSE IF ~PyEqTrue(obj[i].v)
       THEN {IsNonOverridableError("All values of the is_non_overridable dictionary must be True. Found: "
                                   \o obj[i].v.s)}
     ELSE is_non_overridable_items(h, is_non_overridable, i + 1)

is_non_overridable_validation(h, is_non_overridable) ==
  is_non_overridable_items(h, is_non_overridable, 1)

\* overriding_dictionary_validation without the recursion into nested
\* declarations: only top-level protected keys are seen.
overriding_dictionary_validation_shallow(h, dictionary, is_non_overridable) ==
  {IsNonOverridableError("Dictionary attempting to override a non overridable field: "
                         \o key \o ".") :
     key \in {k \in KeysOf(h[dictionary.id]) \cap KeysOf(h[is_non_overridable.id]) :
                PyEqTrue(GetItem(h, is_non_overridable, k))}}

RECURSIVE overriding_dictionary_validation(_, _, _)
overriding_dictionary_validation(h, dictionary, is_non_overridable) ==
  LET intersection == KeysOf(h[dictionary.id]) \cap KeysOf(h[is_non_overridable.id])
      raised(key) ==
        IF PyEqTrue(GetItem(h, is_non_overridable, key))
          THEN {IsNonOverridableError("Dictionary attempting to override a non overridable field: "
                                      \o key \o ".")}
        ELSE IF isdict(GetItem(h, is_non_overridable, key)) /\ isdict(GetItem(h, dictionary, key))
          THEN overriding_dictionary_validation(h, GetItem(h, dictionary, key),
                                                GetItem(h, is_non_overridable, key))
        ELSE {IsNonOverridableError("Dictionary and non overridable are not compatible")}
  IN \* the set is iterated in an unspecified order: any key that raises may come first
     UNION {raised(key) : key \in intersection}

RECURSIVE overriding_base_dictionary_validation(_, _, _)
overriding_base_dictionary_validation(h, base_dictionary, is_non_overridable) ==
  LET difference == KeysOf(h[is_non_overridable.id]) \ KeysOf(h[base_dictionary.id])
      intersection == KeysOf(h[is_non_overridable.id]) \cap KeysOf(h[base_dictionary.id])
  IN IF Cardinality(difference) # 0
       THEN {IsNonOverridableError("The is_non_overridable contains fields that are not in the base_dictionary.")}
     ELSE UNION {IF isdict(GetItem(h, is_non_overridable, key)) /\ isdict(GetItem(h, base_dictionary, key))
                   THEN overriding_base_dictionary_validation(h, GetItem(h, base_dictionary, key),
                                                              GetItem(h, is_non_overridable, key))
                   ELSE {} : key \in intersection}

----------------------------------------------------------------------------
(* merge_overridable_dictionaries *)

RECURSIVE merge_overridable_loop(_, _, _, _, _, _, _)
\* The loop "for dictionary in dictionaries" from the i-th override on.
merge_overridable_loop(h, merged_dictionary, dictionaries, i, is_non_overridable, raise_new_keys, raise_overriding) ==
  IF i > Len(dictionaries) THEN [Returns(h, merged_dictionary) EXCEPT !.n = i - 1]
  ELSE
    LET dictionary == dictionaries[i]
        checked == is_non_overridable # None
        e1 == IF checked THEN is_non_overridable_validation(h, is_non_overridable) ELSE {}
        e2 == IF checked THEN overriding_dictionary_validation(h, dictionary, is_non_overridable)
              ELSE {}
        e3 == IF checked
                THEN overriding_base_dictionary_validation(h, merged_dictionary, is_non_overridable)
              ELSE {}
    IN IF e1 # {} THEN [Raises(h, e1) EXCEPT !.n = i - 1]
       ELSE IF e2 # {} THEN [Raises(h, e2) EXCEPT !.n = i - 1]
       ELSE IF e3 # {} THEN [Raises(h, e3) EXCEPT !.n = i - 1]
       ELSE LET r == merge_dictionaries(h, merged_dictionary, dictionary,
                                        raise_overriding, raise_new_keys)
            IN IF ~r.ok THEN [r EXCEPT !.n = i - 1]
               ELSE merge_overridable_loop(r.h, r.v, dictionaries, i + 1, is_non_overridable,
                                           raise_new_keys, raise_overriding)

Reversed(seq) == [i \in 1..Len(seq) |-> seq[Len(seq) + 1 - i]]

\* merge_overridable_dictionaries folding the overrides from the last to the
\* first, so that the earlier one wins.
merge_overridable_dictionaries_reversed(h, base_dictionary, dictionaries, is_non_overridable, raise_new_keys, raise_overriding) ==
  LET c == DeepCopy(h, base_dictionary)
  IN merge_overridable_loop(c.h, c.v, Reversed(dictionaries), 1, is_non_overridable,
                            raise_new_keys, raise_overriding)

\* merge_overridable_dictionaries checking the declaration, alone and against
\* the base, before the loop, so that it is checked without any override too.
merge_overridable_dictionaries_checked(h, base_dictionary, dictionaries, is_non_overridable, raise_new_keys, raise_overriding) ==
  LET c == DeepCopy(h, base_dictionary)
      checked == is_non_overridable # None
      e1 == IF checked THEN is_non_overridable_validation(c.h, is_non_overridable) ELSE {}
      e3 == IF checked
              THEN overriding_base_dictionary_validation(c.h, c.v, is_non_overridable)
            ELSE {}
  IN IF e1 # {} THEN Raises(c.h, e1)
     ELSE IF e3 # {} THEN Raises(c.h, e3)
     ELSE merge_overridable_loop(c.h, c.v, dictionaries, 1, is_non_overridable,
                                 raise_new_keys, raise_overriding)

merge_overridable_dictionaries(h, base_dictionary, dictionaries, is_non_overridable, raise_new_keys, raise_overriding) ==
  LET c == DeepCopy(h, base_dictionary)
  IN merge_overridable_loop(c.h, c.v, dictionaries, 1, is_non_overridable,
                            raise_new_keys, raise_overriding)

----------------------------------------------------------------------------
(* Files, paths and durations *)

ROOT_DIR == "/opt/finance"

\* The relative paths that occur; every other path is absolute.
RelativePaths ==
  {"./cache/eodhistoricaldata", "credentials.json", "other.json",
   "override.json", "missing.json", "config", "base_config.json", "is_non_overridable.json"}

isabs(path) == path \notin RelativePaths

\* os.path.join of two components.
join(a, b) == IF isabs(b) THEN b ELSE a \o "/" \o b

\* os.path.normpath: drops the "." component of the one path that has one.
normpath(path) ==
  IF path = ROOT_DIR \o "/./cache/eodhistoricaldata"
    THEN ROOT_DIR \o "/cache/eodhistoricaldata"
  ELSE path

BaseConfigPath == join(join(ROOT_DIR, "config"), "base_config.json")

IsNonOverridablePath == join(join(ROOT_DIR, "config"), "is_non_overridable.json")

\* pd.Timedelta(x).to_pytimedelta(): parses a duration string, keeps a
\* timedelta; "" stands for a string it cannot parse.
Timedelta(x) ==
  CASE x = "1d" -> "datetime.timedelta(days=1)"
    [] x = "datetime.timedelta(days=1)" -> "datetime.timedelta(days=1)"
    [] OTHER -> ""

\* bool(value)
Truthy(h, v) ==
  IF isdict(v) THEN Len(h[v.id]) > 0 ELSE v.s \notin {"", "None", "False", "0"}

\* The type of a scalar, told from its spelling: None, the booleans, the
\* integers, a timedelta; every other scalar is a str.
TypeName(v) ==
  CASE v.s = "None" -> "NoneType"
    [] v.s \in {"True", "False"} -> "bool"
    [] v.s \in {"0", "1", "2", "3", "4", "5", "6", "7", "8", "9"} -> "int"
    [] v.s = "datetime.timedelta(days=1)" -> "datetime.timedelta"
    [] OTHER -> "str"

\* The TypeError of value[k] for a value that is no dictionary and a key k
\* that is a str.
NotSubscriptable(v) ==
  IF TypeName(v) = "str"
    THEN Err("TypeError", "string indices must be integers, not 'str'")
  ELSE Err("TypeError", "'" \o TypeName(v) \o "' object is not subscriptable")

\* d[k] read: TypeError on a value that is no dictionary, KeyError on a key
\* it lacks.
Subscript(h, d, k) ==
  IF ~isdict(d) THEN Raises(h, {NotSubscriptable(d)})
  ELSE IF ~HasKey(h, d, k) THEN Raises(h, {Err("KeyError", k)})
  ELSE Returns(h, GetItem(h, d, k))

----------------------------------------------------------------------------
(* Files.  A file holds a JSON document, kept as the literal it parses to,  *)
(* or a text that is no JSON document, kept as the message of the           *)
(* JSONDecodeError that json.load raises on it.                             *)

Text(msg) == [kind |-> "text", s |-> msg, items |-> <<>>]

read_json(h, fs, path) ==
  IF path \notin DOMAIN fs THEN Raises(h, {Err("FileNotFoundError", path)})
  ELSE IF fs[path].kind = "text" THEN Raises(h, {Err("JSONDecodeError", fs[path].s)})
  ELSE LET b == Build(h, fs[path]) IN Returns(b.h, b.v)

\* The place json.dump has reached in the text it writes: the line, the
\* characters written on it, and the characters written in all.
Start == [line |-> 1, col |-> 0, char |-> 0]

Token(p, n) == [p EXCEPT !.col = @ + n, !.char = @ + n]

\* A line break followed by the indentation of nesting level lvl (indent=4).
Newline(p, lvl) == [line |-> p.line + 1, col |-> 4 * lvl, char |-> p.char + 1 + 4 * lvl]

\* json.load on a text that ends where a value is expected.
ExpectingValue(p) ==
  "Expecting value: line " \o ToString(p.line) \o " column " \o ToString(p.col + 1)
    \o " (char " \o ToString(p.char) \o ")"

\* The key json.dump writes: an int key is written as a string.
JsonKey(k) == IF k \in NonStrKeys THEN "7" ELSE k

\* The length of the text of a scalar: a str is quoted, None, True and
\* False are spelled null, true and false.
TokenLen(v) ==
  CASE TypeName(v) = "str" -> Len(v.s) + 2
    [] v.s = "False" -> 5
    [] v.s \in {"None", "True"} -> 4
    [] OTHER -> Len(v.s)

\* What json.load makes of a key written twice: the last value, at the place
\* of the first.
PutItem(items, k, v) ==
  IF k \in KeysOf(items)
    THEN [i \in 1..Len(items) |-> IF items[i].k = k THEN Item(k, v) ELSE items[i]]
  ELSE Append(items, Item(k, v))

\* json.dump(obj, file, indent=4) from the place p on, obj at nesting level
\* lvl: whether it ended, the document written when it did, and the place it
\* reached.  It stops at the first value that is not JSON serialisable.
RECURSIVE Encode(_, _, _, _)
RECURSIVE EncodeItems(_, _, _, _, _, _)
EncodeItems(h, obj, i, lvl, p, acc) ==
  IF i > Len(obj) THEN [ok |-> TRUE, lit |-> Dict(acc), p |-> Token(Newline(p, lvl), 1)]
  ELSE Bind(Token(IF i = 1 THEN p ELSE Newline(Token(p, 1), lvl + 1),
                  Len(JsonKey(obj[i].k)) + 4),
            LAMBDA p1 :
         Bind(Encode(h, obj[i].v, lvl + 1, p1), LAMBDA e :
           IF ~e.ok THEN e
           ELSE EncodeItems(h, obj, i + 1, lvl, e.p, PutItem(acc, JsonKey(obj[i].k), e.lit))))

Encode(h, v, lvl, p) ==
  IF isdict(v)
    THEN IF Len(h[v.id]) = 0 THEN [ok |-> TRUE, lit |-> Dict(<<>>), p |-> Token(p, 2)]
         ELSE EncodeItems(h, h[v.id], 1, lvl, Newline(Token(p, 1), lvl + 1), <<>>)
  ELSE IF TypeName(v) = "datetime.timedelta" THEN [ok |-> FALSE, lit |-> Lit(v.s), p |-> p]
  ELSE [ok |-> TRUE, lit |-> Lit(v.s), p |-> Token(p, TokenLen(v))]

\* save_json: the file is opened for writing, which creates or empties it,
\* and json.dump writes into it; what was written before a TypeError stays.
\* The outcome also gives the files after the call.
save_json(h, fs, obj, output_file) ==
  Bind(Encode(h, obj, 0, Start), LAMBDA e :
    IF e.ok
      THEN [h |-> h, ok |-> TRUE, v |-> None, errs |-> {}, n |-> 0,
            fs |-> (output_file :> e.lit) @@ fs]
    ELSE [h |-> h, ok |-> FALSE, v |-> None, n |-> 0,
          errs |-> {Err("TypeError", "Object of type timedelta is not JSON serializable")},
          fs |-> (output_file :> Text(ExpectingValue(e.p))) @@ fs])

read_base_config(h, fs) == read_json(h, fs, BaseConfigPath)

----------------------------------------------------------------------------
(* generate_config *)

GenerationMessage == "Error when merging config files."

\* except (NewKeyError, OverridingError) as e: raise type(e)(...) from e
Reraised(r) ==
  IF r.ok THEN r
  ELSE [r EXCEPT !.errs = {IF e.kind \in {"NewKeyError", "OverridingError"}
                             THEN RaiseFrom(e, GenerationMessage)
                             ELSE e : e \in r.errs}]

generate_config_from_dictionaries(h, fs, configs) ==
  Bind(read_base_config(h, fs), LAMBDA base_config :
    IF ~base_config.ok THEN base_config
    ELSE Bind(read_json(base_config.h, fs, IsNonOverridablePath), LAMBDA is_non_overridable :
      IF ~is_non_overridable.ok THEN is_non_overridable
      ELSE Bind(merge_overridable_dictionaries(is_non_overridable.h, base_config.v, configs,
                                               is_non_overridable.v, TRUE, FALSE),
                Reraised)))

RECURSIVE read_configs(_, _, _, _, _)
\* [read_json(config) if isinstance(config, str) else config for config in configs]
read_configs(h, fs, configs, i, acc) ==
  IF i > Len(configs) THEN [h |-> h, ok |-> TRUE, vs |-> acc, errs |-> {}]
  ELSE IF ~isdict(configs[i])
    THEN Bind(read_json(h, fs, configs[i].s), LAMBDA r :
           IF ~r.ok THEN [h |-> r.h, ok |-> FALSE, vs |-> acc, errs |-> r.errs]
           ELSE read_configs(r.h, fs, configs, i + 1, Append(acc, r.v)))
  ELSE read_configs(h, fs, configs, i + 1, Append(acc, configs[i]))

generate_config(h, fs, configs) ==
  Bind(read_configs(h, fs, configs, 1, <<>>), LAMBDA read :
    IF ~read.ok THEN Raises(read.h, read.errs)
    ELSE generate_config_from_dictionaries(read.h, fs, read.vs))

----------------------------------------------------------------------------
(* The singleton and its accessors.  cfg is the value of the module global *)
(* __config; an outcome of initialise_config also gives the global's new   *)
(* value and whether the generator ran.                                    *)

get_config(h, cfg, fs) ==
  IF cfg = None THEN read_base_config(h, fs) ELSE Returns(h, cfg)

\* initialise_config that binds the global before the configuration is
\* generated, so that a failed generation leaves it bound.
initialise_config_early(h, cfg, fs, configs) ==
  IF cfg = None
    THEN Bind(Build(h, Dict(<<>>)), LAMBDA b :
           Bind(generate_config(b.h, fs, configs), LAMBDA r :
             [h |-> r.h, ok |-> r.ok, v |-> None, errs |-> r.errs, n |-> r.n,
              config |-> IF r.ok THEN r.v ELSE b.v, generated |-> TRUE]))
  ELSE [h |-> h, ok |-> FALSE, v |-> None, n |-> 0, config |-> cfg, generated |-> FALSE,
        errs |-> {Err("ValueError",
                      "The config has already been initialised. It cannot be initialised twice.")}]

initialise_config(h, cfg, fs, configs) ==
  IF cfg = None
    THEN Bind(generate_config(h, fs, configs), LAMBDA r :
           [h |-> r.h, ok |-> r.ok, v |-> None, errs |-> r.errs, n |-> r.n,
            config |-> IF r.ok THEN r.v ELSE cfg, generated |-> TRUE])
  ELSE [h |-> h, ok |-> FALSE, v |-> None, n |-> 0, config |-> cfg, generated |-> FALSE,
        errs |-> {Err("ValueError",
                      "The config has already been initialised. It cannot be initialised twice.")}]

\* The statements of get_cache_config after cache_config is bound.
set_cache_config(h, cache_config) ==
  Bind(Subscript(h, cache_config, "path"), LAMBDA path :
    IF ~path.ok THEN path
    ELSE Bind(IF ~isabs(path.v.s)
                THEN SetItem(h, cache_config, "path", Val(normpath(join(ROOT_DIR, path.v.s))))
              ELSE h,
              LAMBDA h1 :
      IF HasKey(h1, cache_config, "expire_after")
           /\ Truthy(h1, GetItem(h1, cache_config, "expire_after"))
        THEN Bind(Timedelta(GetItem(h1, cache_config, "expire_after").s), LAMBDA parsed :
               IF parsed = ""
                 THEN Raises(h1, {Err("ValueError", "unit abbreviation w/o a number")})
               ELSE Returns(SetItem(h1, cache_config, "expire_after", Val(parsed)),
                            cache_config))
      ELSE Returns(SetItem(h1, cache_config, "expire_after", None), cache_config)))

get_cache_config(h, cfg, fs, cache_name) ==
  Bind(get_config(h, cfg, fs), LAMBDA config :
    IF ~config.ok THEN config
    ELSE Bind(Subscript(config.h, config.v, "cache"), LAMBDA cache :
      IF ~cache.ok THEN cache
      ELSE Bind(Subscript(cache.h, cache.v, cache_name), LAMBDA cache_config :
        IF ~cache_config.ok THEN cache_config
        ELSE set_cache_config(cache_config.h, cache_config.v))))

get_credentials(h, cfg, fs) ==
  Bind(get_config(h, cfg, fs), LAMBDA config :
    IF ~config.ok THEN config
    ELSE Bind(Subscript(config.h, config.v, "credentials_path"), LAMBDA credentials_path :
      IF ~credentials_path.ok THEN credentials_path
      ELSE read_json(credentials_path.h, fs,
                     IF ~isabs(credentials_path.v.s)
                       THEN normpath(join(ROOT_DIR, credentials_path.v.s))
                     ELSE credentials_path.v.s)))

----------------------------------------------------------------------------
(* Arguments the library functions are called with *)

\* Dictionaries whose keys, in insertion order, are one of keySeqs and whose
\* values are drawn from vals.
DictsOver(keySeqs, vals) ==
  UNION {{Dict([i \in 1..Len(ks) |-> Item(ks[i], f[i])]) : f \in [1..Len(ks) -> vals]}
         : ks \in keySeqs}

Sorted == {<<>>, <<"a">>, <<"b">>, <<"a", "b">>}

AnyOrder == Sorted \cup {<<"b", "a">>}

\* Dictionaries nested to two levels with one leaf value.
TwoLevels(keySeqs, leaves) == DictsOver(keySeqs, leaves \cup DictsOver(Sorted, leaves))

BaseDictionaries == TwoLevels(Sorted, {Lit("1")})

Dictionaries == TwoLevels(AnyOrder, {Lit("5")})

\* Declarations, well-formed and not: leaves true, false and the int 1, and
\* a key that is not a string.
DeclarationLeaves == {Lit("True"), Lit("False"), Lit("1")}

Declarations ==
  DictsOver(AnyOrder \cup {<<"#7">>, <<"a", "#7">>},
            DeclarationLeaves \cup DictsOver(AnyOrder, DeclarationLeaves))

TrueDeclarations == TwoLevels(Sorted, {Lit("True")})

BoolDeclarations == TwoLevels(Sorted, {Lit("True"), Lit("False")})

\* merge_overridable_dictionaries takes a whole sequence of overrides; its
\* arguments are drawn from smaller families.  The i-th override carries the
\* leaf value i, so that the override a value came from can be told.
MaxOverrides == 2

Nested(leaf) == Dict(<<Item("b", leaf)>>)

\* Whether the value of key k, if d has it, is a leaf.
LeafAt(d, k) == \A i \in 1..Len(d.items) : d.items[i].k = k => d.items[i].v.kind = "val"

OverridableBases ==
  {d \in DictsOver({<<"a">>, <<"a", "b">>}, {Lit("1"), Nested(Lit("1"))}) : LeafAt(d, "b")}

OverridableDeclarations ==
  DictsOver({<<>>, <<"a">>, <<"b">>}, {Lit("True"), Lit("False"), Nested(Lit("True"))})
    \cup DictsOver({<<"a", "b">>}, {Lit("False"), Nested(Lit("True"))})

Digit(i) == CASE i = 1 -> "1" [] i = 2 -> "2" [] i = 3 -> "3" [] OTHER -> "4"

Overrides(i) ==
  {d \in DictsOver({<<"a">>, <<"b">>, <<"a", "b">>},
                   {Lit("o" \o Digit(i)), Nested(Lit("o" \o Digit(i)))}) : LeafAt(d, "b")}

OverrideSequences ==
  UNION {{s \in [1..n -> UNION {Overrides(i) : i \in 1..n}] :
            \A i \in 1..n : s[i] \in Overrides(i)} : n \in 0..MaxOverrides}

\* Builds a sequence of literals, one after the other.
RECURSIVE BuildAll(_, _, _, _)
BuildAll(h, lits, i, acc) ==
  IF i > Len(lits) THEN [h |-> h, vs |-> acc]
  ELSE LET b == Build(h, lits[i])
       IN BuildAll(b.h, lits, i + 1, Append(acc, b.v))

----------------------------------------------------------------------------
(* State *)

NoCall == [op |-> "none"]

NoReturn == [ok |-> TRUE, v |-> None, err |-> <<>>, n |-> 0]

\* What the caller may observe of an outcome.
Outcomes(r) ==
  IF r.ok THEN {[ok |-> TRUE, v |-> r.v, err |-> <<>>, n |-> r.n]}
  ELSE {[ok |-> FALSE, v |-> None, err |-> <<e>>, n |-> r.n] : e \in r.errs}

Validated(h, errs) == IF errs = {} THEN Returns(h, None) ELSE Raises(h, errs)

----------------------------------------------------------------------------
(* The library functions, each called once on arguments built in a fresh   *)
(* heap.  call records the arguments and their values before the call.     *)

InitLibrary ==
  /\ heap = <<>>
  /\ __config = None
  /\ files = <<>>
  /\ call = NoCall
  /\ ret = NoReturn
  /\ hist = <<>>

Called(op, h, base, dictionaries, decl, raise_new_keys, raise_overriding) ==
  [op |-> op, base |-> base, dictionaries |-> dictionaries, is_non_overridable |-> decl,
   raise_new_keys |-> raise_new_keys, raise_overriding |-> raise_overriding,
   before |-> [base |-> DeepValue(h, base),
               dictionaries |-> [i \in 1..Len(dictionaries) |-> DeepValue(h, dictionaries[i])],
               is_non_overridable |-> DeepValue(h, decl)]]

Finish(r, c) ==
  /\ heap' = r.h
  /\ call' = c
  /\ ret' \in Outcomes(r)
  /\ UNCHANGED <<__config, files, hist>>

CallMergeDictionaries ==
  /\ call = NoCall
  /\ \E b \in BaseDictionaries, d \in Dictionaries, ro \in BOOLEAN, rn \in BOOLEAN :
       LET hb == Build(heap, b)
           hd == Build(hb.h, d)
       IN Finish(merge_dictionaries(hd.h, hb.v, hd.v, ro, rn),
                 Called("merge_dictionaries", hd.h, hb.v, <<hd.v>>, None, rn, ro))

CallMergeOverridableDictionaries ==
  /\ call = NoCall
  /\ \E b \in OverridableBases, ds \in OverrideSequences,
        decl \in OverridableDeclarations \cup {Lit("None")},
        rn \in BOOLEAN, ro \in BOOLEAN :
       LET hb == Build(heap, b)
           hd == BuildAll(hb.h, ds, 1, <<>>)
           hn == Build(hd.h, decl)
       IN Finish(merge_overridable_dictionaries(hn.h, hb.v, hd.vs, hn.v, rn, ro),
                 Called("merge_overridable_dictionaries", hn.h, hb.v, hd.vs, hn.v, rn, ro))

\* generate_config_from_dictionaries, with base_config.json and
\* is_non_overridable.json holding b and decl when the call reads them.
CallGenerateConfigFromDictionaries ==
  /\ call = NoCall
  /\ \E b \in OverridableBases, ds \in OverrideSequences, decl \in OverridableDeclarations :
       \E fs \in {(BaseConfigPath :> b) @@ (IsNonOverridablePath :> decl)} :
       \E hd \in {BuildAll(heap, ds, 1, <<>>)} :
         Finish(generate_config_from_dictionaries(hd.h, fs, hd.vs),
                [Called("generate_config_from_dictionaries", hd.h, None, hd.vs, None, TRUE, FALSE)
                   EXCEPT !.before.base = LitValue(b),
                          !.before.is_non_overridable = LitValue(decl)])

CallIsNonOverridableValidation ==
  /\ call = NoCall
  /\ \E decl \in Declarations :
       LET hn == Build(heap, decl)
       IN Finish(Validated(hn.h, is_non_overridable_validation(hn.h, hn.v)),
                 Called("is_non_overridable_validation", hn.h, None, <<>>, hn.v, FALSE, FALSE))

CallOverridingDictionaryValidation ==
  /\ call = NoCall
  /\ \E d \in TwoLevels(Sorted, {Lit("5")}), decl \in BoolDeclarations :
       LET hd == Build(heap, d)
           hn == Build(hd.h, decl)
       IN Finish(Validated(hn.h, overriding_dictionary_validation(hn.h, hd.v, hn.v)),
                 Called("overriding_dictionary_validation", hn.h, None, <<hd.v>>, hn.v,
                        FALSE, FALSE))

CallOverridingBaseDictionaryValidation ==
  /\ call = NoCall
  /\ \E b \in BaseDictionaries, decl \in TrueDeclarations :
       LET hb == Build(heap, b)
           hn == Build(hb.h, decl)
       IN Finish(Validated(hn.h, overriding_base_dictionary_validation(hn.h, hb.v, hn.v)),
                 Called("overriding_base_dictionary_validation", hn.h, hb.v, <<>>, hn.v,
                        FALSE, FALSE))

NextLibrary ==
  \/ CallMergeDictionaries
  \/ CallMergeOverridableDictionaries
  \/ CallGenerateConfigFromDictionaries
  \/ CallIsNonOverridableValidation
  \/ CallOverridingDictionaryValidation
  \/ CallOverridingBaseDictionaryValidation

SpecLibrary == InitLibrary /\ [][NextLibrary]_vars

----------------------------------------------------------------------------
(* The process: the files on disk, the module global and the calls made    *)
(* on the module.                                                          *)

BaseConfigFile ==
  Dict(<<Item("cache",
              Dict(<<Item("eodhistoricaldata",
                          Dict(<<Item("path", Lit("./cache/eodhistoricaldata")),
                                 Item("backend", Lit("sqlite")),
                                 Item("expire_after", Lit("1d"))>>))>>)),
         Item("credentials_path", Lit("credentials.json"))>>)

IsNonOverridableFiles ==
  {Dict(<<>>),
   Dict(<<Item("credentials_path", Lit("True"))>>),
   Dict(<<Item("cache", Dict(<<Item("eodhistoricaldata", Dict(<<Item("path", Lit("True"))>>))>>))>>)}

CredentialsFile == Dict(<<Item("eodhistoricaldata", Dict(<<Item("api_key", Lit("secret"))>>))>>)

OverrideFile ==
  Dict(<<Item("cache", Dict(<<Item("eodhistoricaldata", Dict(<<Item("expire_after", Lit(""))>>))>>))>>)

Disk(decl) ==
  [path \in {BaseConfigPath, IsNonOverridablePath, join(ROOT_DIR, "credentials.json"),
             "override.json"} |->
     CASE path = BaseConfigPath -> BaseConfigFile
       [] path = IsNonOverridablePath -> decl
       [] path = "override.json" -> OverrideFile
       [] OTHER -> CredentialsFile]

\* What initialise_config and generate_config are given: dictionaries and
\* paths of files, one of which does not exist.
Sources ==
  {Dict(<<Item("credentials_path", Lit("other.json"))>>),
   Dict(<<Item("cache", Dict(<<Item("eodhistoricaldata",
                                    Dict(<<Item("path", Lit("/var/cache/eod"))>>))>>))>>),
   Dict(<<Item("new_key", Lit("x"))>>),
   Lit("override.json"),
   Lit("missing.json")}

MaxSources == 1

SourceSequences == UNION {[1..n -> Sources] : n \in 0..MaxSources}

CacheNames == {"eodhistoricaldata", "unknown"}

\* What save_json is given: a new document, or the configuration the global
\* is bound to; and where it writes: over base_config.json or to a file of
\* its own.  The packaged base_config.json is only given a document that can
\* be written whole.
SavedDocument == Dict(<<Item("credentials_path", Lit("other.json"))>>)

SavePath == "missing.json"

\* Only what the global and the last returned value reach stays in memory.
\* Objects are moved to a fresh heap, a shared object once.
RECURSIVE Move(_, _, _)
RECURSIVE MoveItems(_, _, _, _, _)
MoveItems(src, st, obj, i, acc) ==
  IF i > Len(obj) THEN [st |-> st, items |-> acc]
  ELSE Bind(Move(src, st, obj[i].v), LAMBDA m :
         MoveItems(src, m.st, obj, i + 1, Append(acc, Item(obj[i].k, m.v))))

Move(src, st, v) ==
  IF v.kind = "val" THEN [st |-> st, v |-> v]
  ELSE IF v.id \in DOMAIN st.fwd THEN [st |-> st, v |-> Ref(st.fwd[v.id])]
  ELSE Bind(MoveItems(src, st, src[v.id], 1, <<>>), LAMBDA m :
         [st |-> [h |-> Append(m.st.h, m.items),
                  fwd |-> m.st.fwd @@ (v.id :> Len(m.st.h) + 1)],
          v |-> Ref(Len(m.st.h) + 1)])

Collect(h, cfg, v) ==
  Bind(Move(h, [h |-> <<>>, fwd |-> <<>>], cfg), LAMBDA a :
    Bind(Move(h, a.st, v), LAMBDA b : [h |-> b.st.h, config |-> a.v, v |-> b.v]))

Init ==
  /\ heap = <<>>
  /\ __config = None
  /\ \E decl \in IsNonOverridableFiles : files = Disk(decl)
  /\ call = NoCall
  /\ ret = NoReturn
  /\ hist = [inits |-> 0, failed |-> FALSE, generated |-> Scalar("None")]

\* The call made, whether the global was bound and its value before the call,
\* whether the call ran the generator, and whether the generator succeeds on
\* the sources given.
Made(op, generated, valid) ==
  [op |-> op, initialised |-> __config # None, before |-> DeepValue(heap, __config),
   generated |-> generated, valid |-> valid]

\* The state a call leaves: r is its outcome, cfg the global after it.
Leave(r, cfg) ==
  \E o \in Outcomes(r) :
    \E c \in {Collect(r.h, cfg, o.v)} :
      /\ heap' = c.h
      /\ __config' = c.config
      /\ ret' = [o EXCEPT !.v = c.v]

InitialiseConfig ==
  \E configs \in SourceSequences :
    \E b \in {BuildAll(heap, configs, 1, <<>>)} :
    \E r \in {initialise_config(b.h, __config, files, b.vs)} :
    \E g \in {generate_config(b.h, files, b.vs)} :
       /\ Leave(r, r.config)
       /\ call' = Made("initialise_config", r.generated, g.ok)
       /\ hist' = IF r.ok
                    THEN [hist EXCEPT !.inits = @ + 1, !.generated = DeepValue(r.h, r.config)]
                  ELSE [hist EXCEPT !.failed = TRUE]
       /\ UNCHANGED files

GenerateConfig ==
  \E configs \in SourceSequences :
    \E b \in {BuildAll(heap, configs, 1, <<>>)} :
    \E r \in {generate_config(b.h, files, b.vs)} :
       /\ Leave(r, __config)
       /\ call' = Made("generate_config", TRUE, r.ok)
       /\ UNCHANGED <<files, hist>>

GetConfig ==
  /\ \E r \in {get_config(heap, __config, files)} : Leave(r, __config)
  /\ call' = Made("get_config", FALSE, FALSE)
  /\ UNCHANGED <<files, hist>>

GetCacheConfig ==
  \E cache_name \in CacheNames :
    \E r \in {get_cache_config(heap, __config, files, cache_name)} :
      /\ Leave(r, __config)
      /\ call' = Made("get_cache_config", FALSE, FALSE)
      /\ UNCHANGED <<files, hist>>

GetCredentials ==
  /\ \E r \in {get_credentials(heap, __config, files)} : Leave(r, __config)
  /\ call' = Made("get_credentials", FALSE, FALSE)
  /\ UNCHANGED <<files, hist>>

SaveJson ==
  \/ \E output_file \in {BaseConfigPath, SavePath} :
       \E b \in {Build(heap, SavedDocument)} :
       \E r \in {save_json(b.h, files, b.v, output_file)} :
         /\ Leave(r, __config)
         /\ files' = r.fs
         /\ call' = Made("save_json", FALSE, FALSE)
         /\ UNCHANGED hist
  \/ /\ __config # None
     /\ \E r \in {save_json(heap, files, __config, SavePath)} :
          /\ Leave(r, __config)
          /\ files' = r.fs
          /\ call' = Made("save_json", FALSE, FALSE)
          /\ UNCHANGED hist

Next ==
  \/ SaveJson
  \/ InitialiseConfig
  \/ GenerateConfig
  \/ GetConfig
  \/ GetCacheConfig
  \/ GetCredentials

Spec == Init /\ [][Next]_vars

----------------------------------------------------------------------------
(* Paths of a value (as DeepValue gives it) *)

RECURSIVE Paths(_)
Paths(dv) ==
  IF dv.kind = "val" THEN {}
  ELSE UNION {{<<k>>} \cup {<<k>> \o p : p \in Paths(dv.m[k])} : k \in DOMAIN dv.m}

RECURSIVE At(_, _)
At(dv, p) == IF p = <<>> THEN dv ELSE At(dv.m[Head(p)], Tail(p))

\* The paths a declaration marks true.
TruePaths(decl) == {p \in Paths(decl) : At(decl, p) = Scalar("True")}

\* The same at path p: absent from both, or present in both with equal values.
SameAt(x, y, p) ==
  /\ p \in Paths(x) <=> p \in Paths(y)
  /\ p \in Paths(x) => At(x, p) = At(y, p)

Raised(kind) == ~ret.ok /\ ret.err[1].kind = kind

Result == DeepValue(heap, ret.v)

InMergeOverridable == call.op = "merge_overridable_dictionaries"

\* Override i supplies a value at a path the declaration marks true.
TouchesProtected(i) ==
  \E p \in TruePaths(call.before.is_non_overridable) : p \in Paths(call.before.dictionaries[i])

ProtectedUnchanged ==
  \A p \in TruePaths(call.before.is_non_overridable) : SameAt(Result, call.before.base, p)

----------------------------------------------------------------------------
(* C1 *)

\* C1 as stated, for the default flags (raise_new_keys, not raise_overriding):
\* an override that supplies a value at a path marked true makes the call fail
\* with IsNonOverridableError before that override is merged, and a call that
\* succeeds leaves every path marked true as it is in the base.
C1_AsStated ==
  (InMergeOverridable /\ call.raise_new_keys /\ ~call.raise_overriding) =>
    /\ \A i \in 1..Len(call.dictionaries) :
         TouchesProtected(i) => Raised("IsNonOverridableError") /\ ret.n < i
    /\ ret.ok => ProtectedUnchanged

\* C1, amended: an override that supplies a value at a path marked true makes
\* the call fail before that override is merged, with IsNonOverridableError
\* unless the merge of an earlier override had already failed with NewKeyError
\* or OverridingError; a call that succeeds leaves every path marked true as it
\* is in the base.
C1_ProtectedPathsRejected ==
  InMergeOverridable =>
    /\ \A i \in 1..Len(call.dictionaries) :
         TouchesProtected(i) =>
           /\ ~ret.ok
           /\ ret.n < i
           /\ \/ Raised("IsNonOverridableError")
              \/ /\ ret.err[1].kind \in {"NewKeyError", "OverridingError"}
                 /\ ret.n + 1 < i
    /\ ret.ok => ProtectedUnchanged

\* The first override was merged and the second, which sets a nested protected
\* path, was rejected.
C1_Witness ==
  /\ InMergeOverridable
  /\ Len(call.dictionaries) = 2
  /\ ~TouchesProtected(1)
  /\ <<"a", "b">> \in TruePaths(call.before.is_non_overridable)
  /\ <<"a", "b">> \in Paths(call.before.dictionaries[2])
  /\ Raised("IsNonOverridableError")
  /\ ret.n = 1

----------------------------------------------------------------------------
(* C4 *)

InputsUnchanged ==
  /\ DeepValue(heap, call.base) = call.before.base
  /\ \A i \in 1..Len(call.dictionaries) :
       DeepValue(heap, call.dictionaries[i]) = call.before.dictionaries[i]
  /\ DeepValue(heap, call.is_non_overridable) = call.before.is_non_overridable

\* C4: merge_dictionaries and merge_overridable_dictionaries leave the base,
\* every override and the declaration equal by value to what they were before
\* the call, whether the call returns or raises.
C4_InputsNotMutated ==
  call.op \in {"merge_dictionaries", "merge_overridable_dictionaries"} => InputsUnchanged

\* A merge that returned after writing a nested value: the result differs from
\* the base at a.b, a path that the base and the override both hold.
C4_Witness ==
  /\ call.op = "merge_dictionaries"
  /\ ret.ok
  /\ <<"a", "b">> \in Paths(call.before.base)
  /\ <<"a", "b">> \in Paths(call.before.dictionaries[1])
  /\ At(Result, <<"a", "b">>) # At(call.before.base, <<"a", "b">>)

----------------------------------------------------------------------------
(* C5 *)

\* r holds every key of b; a key of both has o's value, merged recursively
\* when both values are dictionaries; a key of b alone keeps b's value.
RECURSIVE MergedFrom(_, _, _)
MergedFrom(b, o, r) ==
  /\ r.kind = "dict"
  /\ \A k \in DOMAIN b.m :
       /\ k \in DOMAIN r.m
       /\ IF k \in DOMAIN o.m
            THEN IF b.m[k].kind = "dict" /\ o.m[k].kind = "dict"
                   THEN MergedFrom(b.m[k], o.m[k], r.m[k])
                   ELSE r.m[k] = o.m[k]
            ELSE r.m[k] = b.m[k]

PermissiveMerge ==
  call.op = "merge_dictionaries" /\ ~call.raise_new_keys /\ ~call.raise_overriding

\* C5: with both reject flags false, merge_dictionaries returns a dictionary
\* that holds every key of the base, O's value for a key of both (recursively
\* for nested dictionaries) and the base's value for a key of the base alone.
C5_MergeResult ==
  PermissiveMerge =>
    ret.ok /\ MergedFrom(call.before.base, call.before.dictionaries[1], Result)

\* Both have a dictionary at a; the base's holds a key the override's lacks,
\* and the override's sets a key the base's has.
C5_Witness ==
  /\ PermissiveMerge
  /\ ret.ok
  /\ {<<"a", "a">>, <<"a", "b">>} \subseteq Paths(call.before.base)
  /\ <<"a", "a">> \in Paths(call.before.dictionaries[1])
  /\ <<"a", "b">> \notin Paths(call.before.dictionaries[1])
  /\ At(Result, <<"a", "a">>) = Scalar("5")
  /\ At(Result, <<"a", "b">>) = Scalar("1")

----------------------------------------------------------------------------
(* C6 *)

IsScalarAt(dv, p) == p \in Paths(dv) /\ At(dv, p).kind = "val"

\* C6: when the call succeeds and the last override and an earlier one both
\* set a path to non-structure values, the result has the last one's value
\* there.
C6_LaterWins ==
  (InMergeOverridable /\ ret.ok) =>
    LET n == Len(call.dictionaries)
    IN \A i \in 1..(n - 1) :
         \A p \in Paths(call.before.dictionaries[n]) :
           (IsScalarAt(call.before.dictionaries[n], p) /\ IsScalarAt(call.before.dictionaries[i], p))
             => /\ p \in Paths(Result)
                /\ At(Result, p) = At(call.before.dictionaries[n], p)

\* Two overrides set the nested path a.b under a declaration that protects
\* another key, and the result has the second one's value.
C6_Witness ==
  /\ InMergeOverridable
  /\ ret.ok
  /\ Len(call.dictionaries) = 2
  /\ call.is_non_overridable # None
  /\ TruePaths(call.before.is_non_overridable) # {}
  /\ IsScalarAt(call.before.dictionaries[1], <<"a", "b">>)
  /\ IsScalarAt(call.before.dictionaries[2], <<"a", "b">>)
  /\ At(Result, <<"a", "b">>) = Scalar("o2")

----------------------------------------------------------------------------
(* C7 *)

\* A declaration with a leaf False somewhere in its tree.
HasFalseLeaf(decl) == \E p \in Paths(decl) : At(decl, p) = Scalar("False")

\* C7 as stated, for the leaf False: is_non_overridable_validation raises
\* IsNonOverridableError for every declaration that has a leaf False anywhere
\* in its tree, whatever its position among its sibling keys.
C7_AsStated ==
  (call.op = "is_non_overridable_validation" /\ HasFalseLeaf(call.before.is_non_overridable))
    => Raised("IsNonOverridableError")

----------------------------------------------------------------------------
(* C8 *)

\* C8 as stated: overriding_base_dictionary_validation raises
\* IsNonOverridableError whenever the declaration has a key path that does not
\* exist in the base, also below a base value that is not a dictionary.
C8_AsStated ==
  (/\ call.op = "overriding_base_dictionary_validation"
   /\ ~(Paths(call.before.is_non_overridable) \subseteq Paths(call.before.base)))
    => Raised("IsNonOverridableError")

----------------------------------------------------------------------------
(* C2 *)

Initialised == __config # None

Held == DeepValue(heap, __config)

\* C2 as stated: at most one initialise_config call succeeds; a call made when
\* the global is bound raises ValueError without running the generator and
\* leaves the configuration held as it was; and get_config, once the global
\* is bound, returns the configuration that the first initialisation
\* produced, whatever calls were made in between.
C2_AsStated ==
  /\ hist.inits <= 1
  /\ (call.op = "initialise_config" /\ call.initialised) =>
       /\ Raised("ValueError")
       /\ ~call.generated
       /\ Initialised
       /\ Held = call.before
  /\ (call.op = "get_config" /\ call.initialised) =>
       /\ ret.ok
       /\ ret.v = __config
       /\ DeepValue(heap, ret.v) = hist.generated

----------------------------------------------------------------------------
(* C3 *)

\* C3 as stated: once initialised, the configuration held by the singleton
\* stays equal by value to the one the generator produced, whatever calls of
\* get_config, get_cache_config, get_credentials and initialise_config follow.
C3_AsStated == Initialised => Held = hist.generated

----------------------------------------------------------------------------
(* C9 *)

\* C9 as stated: a NewKeyError, OverridingError or IsNonOverridableError that
\* leaves generate_config carries the generation message, and has the
\* underlying error of the same kind chained as its cause.
C9_AsStated ==
  (/\ call.op = "generate_config"
   /\ ~ret.ok
   /\ ret.err[1].kind \in {"NewKeyError", "OverridingError", "IsNonOverridableError"})
    => /\ ret.err[1].msg = GenerationMessage
       /\ Len(ret.err[1].cause) = 1
       /\ ret.err[1].cause[1].kind = ret.err[1].kind

----------------------------------------------------------------------------
(* C10 *)

\* C10: an initialise_config call whose generation raises leaves the global
\* unbound; get_config then still returns the base configuration; a call with
\* sources the generator accepts succeeds whatever failed before; and the
\* global is bound only by a successful initialisation.
C10_FailureLeavesUninitialised ==
  /\ (call.op = "initialise_config" /\ ~call.initialised /\ ~ret.ok) =>
       /\ ~Initialised
       /\ call.generated
       /\ ~call.valid
  /\ (call.op = "get_config" /\ ~call.initialised) =>
       /\ ret.ok
       /\ DeepValue(heap, ret.v) = LitValue(files[BaseConfigPath])
       /\ ~Initialised
  /\ (call.op = "initialise_config" /\ ~call.initialised /\ call.valid) =>
       /\ ret.ok
       /\ Initialised
  /\ Initialised => hist.inits >= 1

\* After an initialisation that failed, one with valid sources succeeded.
C10_Witness ==
  /\ hist.failed
  /\ call.op = "initialise_config"
  /\ ~call.initialised
  /\ ret.ok
  /\ Initialised

----------------------------------------------------------------------------
(* C11 *)

\* The dictionary objects reachable from a value.
RECURSIVE Reach(_, _)
Reach(h, v) ==
  IF v.kind = "val" THEN {}
  ELSE {v.id} \cup UNION {Reach(h, h[v.id][i].v) : i \in 1..Len(h[v.id])}

\* C11 as stated: no dictionary object reachable from the result of
\* merge_dictionaries is an object reachable from the override or from the
\* base, so that a later write to either cannot show in the result.
C11_AsStated ==
  (call.op = "merge_dictionaries" /\ ret.ok) =>
    Reach(heap, ret.v) \cap (Reach(heap, call.dictionaries[1]) \cup Reach(heap, call.base)) = {}

----------------------------------------------------------------------------
(* C12 *)

\* Override i holds a key path that the base lacks.
BringsNewPath(i) == Paths(call.before.dictionaries[i]) \ Paths(call.before.base) # {}

\* C12 as stated, for a call without declaration and with the default flags
\* (raise_new_keys, not raise_overriding): an override holding, at any depth,
\* a key path that the base lacks makes the call fail with NewKeyError, and a
\* result that is returned holds no key path that the base lacks.
C12_AsStated ==
  (/\ InMergeOverridable
   /\ call.is_non_overridable = None
   /\ call.raise_new_keys
   /\ ~call.raise_overriding) =>
    /\ \A i \in 1..Len(call.dictionaries) : BringsNewPath(i) => Raised("NewKeyError")
    /\ ret.ok => Paths(Result) \subseteq Paths(call.before.base)

----------------------------------------------------------------------------
(* C13 *)

\* C13: without overrides merge_overridable_dictionaries, and
\* generate_config_from_dictionaries which calls it, return a structure equal
\* by value to the base whatever the declaration is; no check raises.
C13_NoOverridesNoChecks ==
  (/\ call.op \in {"merge_overridable_dictionaries", "generate_config_from_dictionaries"}
   /\ Len(call.dictionaries) = 0) =>
    /\ ret.ok
    /\ ret.n = 0
    /\ Result = call.before.base

\* merge_overridable_dictionaries returned the base for a declaration that has
\* both a false leaf and a key the base lacks.
C13_Witness ==
  /\ InMergeOverridable
  /\ Len(call.dictionaries) = 0
  /\ \E p \in Paths(call.before.is_non_overridable) :
       /\ At(call.before.is_non_overridable, p) = Scalar("False")
       /\ p \notin Paths(call.before.base)
  /\ ret.ok
  /\ Result = call.before.base

====
